---- MODULE Spec2Model ----
(***************************************************************************)
(* Model of zkpf/validate_attestation.py: the structural validator          *)
(* validate_attestation and the command-line wrapper main.                  *)
(*                                                                          *)
(* A parsed JSON value is a record tagged with the Python type json.load    *)
(* produces for it: "dict", "list", "str", "int", "float", "bool",          *)
(* "NoneType".  Strings are sequences of one-character strings.  Integers   *)
(* of the numeric fields are arbitrary precision in Python; they are kept   *)
(* as sign and magnitude, the magnitude a little-endian sequence of 16-bit  *)
(* limbs without leading zero limbs.                                        *)
(***************************************************************************)
EXTENDS Integers, Sequences, FiniteSets, TLC

VARIABLES input, doc, pc, fi, errors, result, called, stdout, exitcode

vars == <<input, doc, pc, fi, errors, result, called, stdout, exitcode>>

---------------------------------------------------------------------------
(* Bounds *)

\* number of required fields of the base attestation a document may change
MaxMutations == 2

---------------------------------------------------------------------------
(* Program constants *)

ByteArrayLen == 32
HexStrLen == 64

LimbBase == 2^16

\* 0xFFFFFFFF
U32Max == [neg |-> FALSE, mag |-> <<LimbBase - 1, LimbBase - 1>>]

\* required_fields, in insertion order (the order dict.items() iterates)
Fields ==
  << "balance_raw", "currency_code_int", "custodian_id", "attestation_id",
     "issued_at", "valid_until", "account_id_hash", "custodian_pubkey",
     "signature", "message_hash" >>

\* expected_type of each entry of required_fields
ExpectedType(field) ==
  CASE field = "account_id_hash" -> "str"
    [] field = "custodian_pubkey" -> "dict"
    [] field = "signature" -> "dict"
    [] field = "message_hash" -> "list"
    [] OTHER -> "int"

---------------------------------------------------------------------------
(* Python values *)

PyTypes == {"dict", "list", "str", "int", "float", "bool", "NoneType"}

\* types on which the operators `in` and len() are defined
Containers == {"dict", "list", "str"}

\* isinstance(v, ty): bool is a subclass of int
IsInstance(v, ty) == v.t = ty \/ (ty = "int" /\ v.t = "bool")

Zero == [neg |-> FALSE, mag |-> <<>>]

\* x < 0 on an arbitrary-precision integer
BigNegative(b) == b.neg /\ b.mag /= <<>>

RECURSIVE MagGreaterFrom(_, _, _)
\* compares limbs i, i-1, ..., 1 of two magnitudes of the same length
MagGreaterFrom(a, b, i) ==
  IF i = 0 THEN FALSE
  ELSE IF a[i] /= b[i] THEN a[i] > b[i]
  ELSE MagGreaterFrom(a, b, i - 1)

\* a > b on magnitudes
MagGreater(a, b) ==
  IF Len(a) /= Len(b) THEN Len(a) > Len(b) ELSE MagGreaterFrom(a, b, Len(a))

\* x > y on arbitrary-precision integers, y >= 0
BigGreater(x, y) == ~BigNegative(x) /\ MagGreater(x.mag, y.mag)

\* an element of a list: its type and, for int and bool, its value
Elem(ty, n) == [t |-> ty, n |-> n]

NoElem == Elem("NoneType", 0)

\* a member of custodian_pubkey or signature; t = "absent" when the key is
\* not in the object; size is len() of a str or dict member
Member(ty, a, size) == [t |-> ty, a |-> a, size |-> size]

NoMember == Member("absent", <<>>, 0)

\* the value of a field of the attestation object
Value(ty, n, s, a, m1, m2) ==
  [t |-> ty, n |-> n, s |-> s, a |-> a, m1 |-> m1, m2 |-> m2]

\* len(v) of a list, str or dict member
PyLen(m) == IF m.t = "list" THEN Len(m.a) ELSE m.size

\* the outcome of a fragment of code: the errors it appended and whether it
\* raised an exception
Ok(errs) == [raised |-> FALSE, errs |-> errs]
Raise(errs) == [raised |-> TRUE, errs |-> errs]

\* sequential composition: r2 runs only if r1 did not raise
Then(r1, r2) ==
  IF r1.raised THEN r1
  ELSE [raised |-> r2.raised, errs |-> r1.errs \o r2.errs]

\* an error string, kept as the parts the f-string is built from
Error(kind, field, sub, n, got, v) ==
  [kind |-> kind, field |-> field, sub |-> sub, n |-> n, got |-> got, v |-> v]

---------------------------------------------------------------------------
(* validate_attestation, check by check *)

\* `key in obj`: "raise" when obj is not iterable
In(obj, key) ==
  IF obj.t \notin Containers THEN "raise"
  ELSE IF key \in obj.has THEN "yes" ELSE "no"

\* one iteration of the presence/type loop
CheckField(att, field) ==
  CASE In(att, field) = "raise" -> Raise(<<>>)
    [] In(att, field) = "no" ->
         Ok(<<Error("missing_field", field, "", 0, "", NoElem)>>)
    [] OTHER ->
         IF att.t /= "dict" THEN Raise(<<>>)
         ELSE IF ~IsInstance(att.f[field], ExpectedType(field))
              THEN Ok(<<Error("wrong_type", field, "", 0, att.f[field].t, NoElem)>>)
              ELSE Ok(<<>>)

RECURSIVE CheckFieldsFrom(_, _)
\* iterations i, i+1, ... of the presence/type loop
CheckFieldsFrom(att, i) ==
  IF i > Len(Fields) THEN Ok(<<>>)
  ELSE Then(CheckField(att, Fields[i]), CheckFieldsFrom(att, i + 1))

\* the check of one member (x, y, r or s) of a nested object
CheckMember(m, field, sub) ==
  IF m.t = "absent" THEN Ok(<<Error("missing_member", field, sub, 0, "", NoElem)>>)
  ELSE IF m.t /= "list" \/ Len(m.a) /= ByteArrayLen
       THEN IF m.t \in Containers
            THEN Ok(<<Error("bad_member", field, sub, PyLen(m), "", NoElem)>>)
            ELSE Raise(<<>>)
       ELSE Ok(<<>>)

\* the guard `field in att and isinstance(att[field], dict)` followed by the
\* checks of the two members
CheckNested(att, field, sub1, sub2) ==
  CASE In(att, field) = "raise" -> Raise(<<>>)
    [] In(att, field) = "no" -> Ok(<<>>)
    [] OTHER ->
         IF att.t /= "dict" THEN Raise(<<>>)
         ELSE IF ~IsInstance(att.f[field], "dict") THEN Ok(<<>>)
         ELSE Then(CheckMember(att.f[field].m1, field, sub1),
                   CheckMember(att.f[field].m2, field, sub2))

CheckCustodianPubkey(att) == CheckNested(att, "custodian_pubkey", "x", "y")

CheckSignature(att) == CheckNested(att, "signature", "r", "s")

\* not isinstance(byte, int) or not (0 <= byte <= 255)
BadByte(e) == ~IsInstance(e, "int") \/ ~(0 <= e.n /\ e.n <= 255)

\* positions (1-based) of the elements the scan would reject
BadPositions(a) == {i \in 1..Len(a) : BadByte(a[i])}

Min(S) == CHOOSE m \in S : \A k \in S : m <= k

\* the scan of message_hash, leaving the loop at the first rejected element;
\* enumerate() counts from 0
ScanBytes(a) ==
  IF BadPositions(a) = {} THEN <<>>
  ELSE <<Error("bad_element", "message_hash", "", Min(BadPositions(a)) - 1, "",
               a[Min(BadPositions(a))])>>

CheckMessageHash(att) ==
  CASE In(att, "message_hash") = "raise" -> Raise(<<>>)
    [] In(att, "message_hash") = "no" -> Ok(<<>>)
    [] OTHER ->
         IF att.t /= "dict" THEN Raise(<<>>)
         ELSE LET mh == att.f["message_hash"] IN
           IF ~IsInstance(mh, "list") \/ Len(mh.a) /= ByteArrayLen
           THEN Ok(<<Error("bad_array", "message_hash", "",
                           IF IsInstance(mh, "list") THEN Len(mh.a) ELSE -1,
                           "", NoElem)>>)
           ELSE Ok(ScanBytes(mh.a))

HexDigits ==
  {"0", "1", "2", "3", "4", "5", "6", "7", "8", "9",
   "a", "b", "c", "d", "e", "f", "A", "B", "C", "D", "E", "F"}

\* the characters bytes.fromhex skips between bytes
Whitespace == {" ", "\t", "\n", "\r"}

\* str.removeprefix
RemovePrefix(s, p) ==
  IF Len(s) >= Len(p) /\ SubSeq(s, 1, Len(p)) = p
  THEN SubSeq(s, Len(p) + 1, Len(s))
  ELSE s

RECURSIVE FromHexFrom(_, _)
\* bytes.fromhex from position i: whitespace is skipped before each byte,
\* then two hexadecimal digits must follow one another
FromHexFrom(s, i) ==
  IF i > Len(s) THEN TRUE
  ELSE IF s[i] \in Whitespace THEN FromHexFrom(s, i + 1)
  ELSE IF i + 1 <= Len(s) /\ s[i] \in HexDigits /\ s[i + 1] \in HexDigits
       THEN FromHexFrom(s, i + 2)
       ELSE FALSE

\* TRUE when bytes.fromhex(s) does not raise ValueError
FromHexOK(s) == FromHexFrom(s, 1)

\* aih.removeprefix("0x").removeprefix("0X")
StripHexPrefix(s) == RemovePrefix(RemovePrefix(s, <<"0", "x">>), <<"0", "X">>)

\* the string branch with the decode attempt made before the length check
CheckHexStringDecodeFirst(s) ==
  LET hex_str == StripHexPrefix(s) IN
    (IF ~FromHexOK(hex_str)
     THEN <<Error("not_hex", "account_id_hash", "", 0, "", NoElem)>>
     ELSE <<>>)
    \o
    (IF Len(hex_str) /= HexStrLen
     THEN <<Error("hex_len", "account_id_hash", "", Len(hex_str), "", NoElem)>>
     ELSE <<>>)

\* the string branch of the account_id_hash check
CheckHexString(s) ==
  LET hex_str == StripHexPrefix(s) IN
    (IF Len(hex_str) /= HexStrLen
     THEN <<Error("hex_len", "account_id_hash", "", Len(hex_str), "", NoElem)>>
     ELSE <<>>)
    \o
    (IF ~FromHexOK(hex_str)
     THEN <<Error("not_hex", "account_id_hash", "", 0, "", NoElem)>>
     ELSE <<>>)

CheckAccountIdHash(att) ==
  CASE In(att, "account_id_hash") = "raise" -> Raise(<<>>)
    [] In(att, "account_id_hash") = "no" -> Ok(<<>>)
    [] OTHER ->
         IF att.t /= "dict" THEN Raise(<<>>)
         ELSE LET aih == att.f["account_id_hash"] IN
           IF IsInstance(aih, "str") THEN Ok(CheckHexString(aih.s))
           ELSE IF IsInstance(aih, "list")
                THEN IF Len(aih.a) /= ByteArrayLen
                     THEN Ok(<<Error("array_len", "account_id_hash", "", Len(aih.a), "", NoElem)>>)
                     ELSE Ok(<<>>)
                ELSE Ok(<<Error("bad_kind", "account_id_hash", "", 0, aih.t, NoElem)>>)

\* the condition under which the range check of a numeric field reports
OutOfRange(field, n) ==
  IF field = "balance_raw" THEN BigNegative(n)
  ELSE BigNegative(n) \/ BigGreater(n, U32Max)

\* the range check of one of balance_raw, currency_code_int, custodian_id
CheckRange(att, field) ==
  CASE In(att, field) = "raise" -> Raise(<<>>)
    [] In(att, field) = "no" -> Ok(<<>>)
    [] OTHER ->
         IF att.t /= "dict" THEN Raise(<<>>)
         ELSE IF IsInstance(att.f[field], "int") /\ OutOfRange(field, att.f[field].n)
              THEN Ok(<<Error("range", field, "", 0, "", NoElem)>>)
              ELSE Ok(<<>>)

CheckNumericRanges(att) ==
  Then(CheckRange(att, "balance_raw"),
       Then(CheckRange(att, "currency_code_int"), CheckRange(att, "custodian_id")))

\* the top-level check; next = TRUE when the field checks follow
CheckTopLevel(d) ==
  IF d.t \notin Containers THEN [raised |-> TRUE, errs |-> <<>>, next |-> FALSE]
  ELSE IF ~d.hasAtt
       THEN [raised |-> FALSE,
             errs |-> <<Error("missing_top", "attestation", "", 0, "", NoElem)>>,
             next |-> FALSE]
       ELSE IF d.t /= "dict" THEN [raised |-> TRUE, errs |-> <<>>, next |-> FALSE]
            ELSE [raised |-> FALSE, errs |-> <<>>, next |-> TRUE]

\* the whole call: what validate_attestation(d) returns, or that it raised
ValidateAttestation(d) ==
  LET top == CheckTopLevel(d) IN
    IF ~top.next THEN [raised |-> top.raised, errs |-> top.errs]
    ELSE Then(CheckFieldsFrom(d.att, 1),
         Then(CheckCustodianPubkey(d.att),
         Then(CheckSignature(d.att),
         Then(CheckMessageHash(d.att),
         Then(CheckAccountIdHash(d.att), CheckNumericRanges(d.att))))))

---------------------------------------------------------------------------
(* main *)

\* a main that tests len(errors) > 1 instead of the truth of the list
ExitStatusOffByOne(errs) == IF Len(errs) > 1 THEN 1 ELSE 0

\* the exit status main chooses from the list validate_attestation returned
ExitStatus(errs) == IF errs /= <<>> THEN 1 ELSE 0

\* a line written to standard output
Line(kind, i, err) == [line |-> kind, i |-> i, err |-> err]

NoError == Error("", "", "", 0, "", NoElem)

\* the header and the numbered errors, enumerate(errors, 1)
ErrorReport(errs) ==
  <<Line("failed", 0, NoError)>> \o [i \in 1..Len(errs) |-> Line("error", i, errs[i])]

---------------------------------------------------------------------------
(* Documents the model is run on *)

FieldSet == {Fields[i] : i \in 1..Len(Fields)}

One == [neg |-> FALSE, mag |-> <<1>>]
MinusOne == [neg |-> TRUE, mag |-> <<1>>]
Pow32 == [neg |-> FALSE, mag |-> <<0, 0, 1>>]
U64Max == [neg |-> FALSE, mag |-> <<LimbBase - 1, LimbBase - 1, LimbBase - 1, LimbBase - 1>>]
Pow64 == [neg |-> FALSE, mag |-> <<0, 0, 0, 0, 1>>]

IntV(b) == Value("int", b, <<>>, <<>>, NoMember, NoMember)
BoolV(b) == Value("bool", IF b THEN One ELSE Zero, <<>>, <<>>, NoMember, NoMember)
FloatV == Value("float", Zero, <<>>, <<>>, NoMember, NoMember)
NoneV == Value("NoneType", Zero, <<>>, <<>>, NoMember, NoMember)
StrV(s) == Value("str", Zero, s, <<>>, NoMember, NoMember)
ListV(a) == Value("list", Zero, <<>>, a, NoMember, NoMember)
DictV(m1, m2) == Value("dict", Zero, <<>>, <<>>, m1, m2)
\* stands for a key that is not in the attestation object
AbsentV == Value("absent", Zero, <<>>, <<>>, NoMember, NoMember)

Rep(n, c) == [i \in 1..n |-> c]

Byte(n) == Elem("int", n)
True == Elem("bool", 1)

Bytes(n) == Rep(n, Byte(0))

\* the array a with the element at 0-based index i replaced by e
Put(a, i, e) == [a EXCEPT ![i + 1] = e]

ListM(a) == Member("list", a, 0)

GoodMember == ListM(Put(Bytes(ByteArrayLen), 0, Byte(255)))

Hex(n) == Rep(n, "a")

BaseFields ==
  [f \in FieldSet |->
     CASE f = "balance_raw" -> IntV(U64Max)
       [] f = "currency_code_int" -> IntV(U32Max)
       [] f = "custodian_id" -> IntV(Zero)
       [] f = "attestation_id" -> IntV(One)
       [] f = "issued_at" -> IntV(One)
       [] f = "valid_until" -> IntV(U64Max)
       [] f = "account_id_hash" -> StrV(Put(Hex(HexStrLen), 1, "F"))
       [] f = "custodian_pubkey" -> DictV(GoodMember, GoodMember)
       [] f = "signature" -> DictV(GoodMember, GoodMember)
       [] f = "message_hash" -> ListV(Put(Bytes(ByteArrayLen), 0, Byte(255)))]

\* an attestation value: its type, the keys k for which `k in att` holds,
\* and, for an object, the value of each key
Att(ty, has, f) == [t |-> ty, has |-> has, f |-> f]

\* scenario 1: every field valid, account_id_hash a 64-character hex string
BaseAtt == Att("dict", FieldSet, BaseFields)

BadMember == ListM(Bytes(10))

\* the values a document may give a field instead of the base value
Alts(f) ==
  CASE f = "balance_raw" -> {AbsentV, IntV(MinusOne), IntV(Pow64), BoolV(TRUE)}
    [] f = "currency_code_int" -> {AbsentV, IntV(MinusOne), IntV(Pow32), StrV(<<"1">>)}
    [] f = "custodian_id" -> {IntV(MinusOne), IntV(Pow32), NoneV}
    [] f = "attestation_id" -> {AbsentV, IntV(MinusOne), IntV(Pow64)}
    [] f = "issued_at" -> {IntV(MinusOne), BoolV(FALSE)}
    [] f = "valid_until" -> {IntV(Pow64), FloatV}
    [] f = "account_id_hash" ->
         {AbsentV, IntV(One),
          ListV(Bytes(ByteArrayLen)),
          ListV(Bytes(ByteArrayLen - 1)),
          StrV(<<"0", "x">> \o Hex(HexStrLen)),
          StrV(<<"0", "X">> \o Hex(HexStrLen)),
          StrV(<<"0", "x", "0", "X">> \o Hex(HexStrLen)),
          StrV(<<"0", "X", "0", "x">> \o Hex(HexStrLen)),
          StrV(<<"0", "x">> \o Rep(HexStrLen, "Z")),
          StrV(Rep(HexStrLen, " ")),
          StrV(Hex(HexStrLen - 1)),
          StrV(<<"Z">>)}
    [] f = "custodian_pubkey" ->
         {AbsentV, NoneV,
          DictV(NoMember, GoodMember),
          DictV(BadMember, GoodMember),
          DictV(ListM(Put(Bytes(ByteArrayLen), 7, Byte(256))), GoodMember),
          DictV(Member("int", <<>>, 0), BadMember),
          DictV(Member("str", <<>>, 2), GoodMember),
          DictV(BadMember, NoMember),
          DictV(GoodMember, BadMember)}
    [] f = "signature" ->
         {ListV(Bytes(ByteArrayLen)),
          DictV(NoMember, GoodMember),
          DictV(ListM(Put(Bytes(ByteArrayLen), 0, True)), GoodMember),
          DictV(GoodMember, Member("NoneType", <<>>, 0)),
          DictV(BadMember, BadMember),
          DictV(GoodMember, Member("dict", <<>>, 0))}
    [] OTHER ->
         {AbsentV, StrV(<<"a", "b", "c">>),
          ListV(Bytes(ByteArrayLen - 1)),
          ListV(Put(Bytes(ByteArrayLen), 5, Byte(256))),
          ListV(Put(Bytes(ByteArrayLen), 5, Byte(-1))),
          ListV(Put(Put(Bytes(ByteArrayLen), 5, Byte(256)), 9, Byte(-1))),
          ListV(Put(Bytes(ByteArrayLen), ByteArrayLen - 1, Elem("float", 0))),
          ListV(Put(Bytes(ByteArrayLen), 2, True)),
          ListV(Put(Put(Bytes(ByteArrayLen), 2, True), 4, Byte(300)))}

\* the attestation object with the values vals (in the order of Fields);
\* a field whose value is AbsentV is not in the object
MakeAtt(vals) ==
  Att("dict",
      {Fields[i] : i \in {j \in 1..Len(Fields) : vals[j].t /= "absent"}},
      [f \in FieldSet |->
         LET v == vals[CHOOSE i \in 1..Len(Fields) : Fields[i] = f] IN
           IF v.t = "absent" THEN NoneV ELSE v])

RECURSIVE FieldValues(_, _)
\* the choices of values for fields i, i+1, ... in which at most k fields
\* have another value than the base value
FieldValues(i, k) ==
  IF i > Len(Fields) THEN {<<>>}
  ELSE {<<BaseFields[Fields[i]]>> \o r : r \in FieldValues(i + 1, k)}
       \cup (IF k = 0 THEN {}
             ELSE {<<v>> \o r : v \in Alts(Fields[i]), r \in FieldValues(i + 1, k - 1)})

\* the attestation objects that differ from BaseAtt in at most k fields
AttMut(k) == {MakeAtt(vals) : vals \in FieldValues(1, k)}

NoFields == [f \in FieldSet |-> NoneV]

\* attestation values that are not objects; a list or string may contain a
\* field name, so that `field in att` holds
NonObjectAtts ==
  {Att(ty, {}, NoFields) : ty \in PyTypes \ {"dict"}}
  \cup {Att("list", {"issued_at"}, NoFields), Att("str", {"signature"}, NoFields)}

Doc(ty, hasAtt, att) == [t |-> ty, hasAtt |-> hasAtt, att |-> att]

NoAtt == Att("NoneType", {}, NoFields)

\* documents without an "attestation" key and documents that are not objects;
\* hasAtt is the truth of `"attestation" in d` where that is defined
TopLevelDocs ==
  {Doc(ty, FALSE, NoAtt) : ty \in PyTypes}
  \cup {Doc(ty, TRUE, NoAtt) : ty \in {"list", "str"}}

Docs ==
  {Doc("dict", TRUE, a) : a \in AttMut(MaxMutations) \cup NonObjectAtts}
  \cup TopLevelDocs

\* the documents piped to standard input: the scenarios that need no file
StdinDocs == {Doc("dict", TRUE, BaseAtt), Doc("dict", FALSE, NoAtt)}

\* the command line and what reading the input gives
Inputs ==
  [argc : {1, 2}, file : {"stdin", "found", "not_found", "unreadable"},
   wellformed : BOOLEAN]

Readable(i) == i.argc >= 2 /\ i.file \in {"stdin", "found"} /\ i.wellformed

---------------------------------------------------------------------------
(* The state machine *)

Init ==
  /\ input \in Inputs
  /\ doc \in (IF ~Readable(input) THEN {Doc("NoneType", FALSE, NoAtt)}
              ELSE IF input.file = "stdin" THEN StdinDocs ELSE Docs)
  /\ pc = "main"
  /\ fi = 1
  /\ errors = <<>>
  /\ result = "none"
  /\ called = FALSE
  /\ stdout = <<>>
  /\ exitcode = -1

\* sys.exit(code) after printing lines
Exit(lines, code) ==
  /\ stdout' = stdout \o lines
  /\ exitcode' = code
  /\ pc' = "exit"
  /\ UNCHANGED <<input, doc, fi, errors, result, called>>

MainUsage ==
  /\ pc = "main"
  /\ input.argc < 2
  /\ Exit(<<Line("usage", 0, NoError)>>, 1)

MainFileNotFound ==
  /\ pc = "main"
  /\ input.argc >= 2
  /\ input.file = "not_found"
  /\ Exit(<<Line("file_not_found", 0, NoError)>>, 1)

\* open() raises an OSError other than FileNotFoundError; no except clause
\* matches and the interpreter ends with status 1
MainUncaughtOSError ==
  /\ pc = "main"
  /\ input.argc >= 2
  /\ input.file = "unreadable"
  /\ Exit(<<>>, 1)

MainInvalidJSON ==
  /\ pc = "main"
  /\ input.argc >= 2
  /\ input.file \in {"stdin", "found"}
  /\ ~input.wellformed
  /\ Exit(<<Line("invalid_json", 0, NoError)>>, 1)

\* json.load succeeds and main calls validate_attestation(data)
MainLoad ==
  /\ pc = "main"
  /\ Readable(input)
  /\ pc' = "top"
  /\ called' = TRUE
  /\ UNCHANGED <<input, doc, fi, errors, result, stdout, exitcode>>

\* a fragment of validate_attestation with outcome r, followed by next
Step(r, next) ==
  /\ errors' = errors \o r.errs
  /\ pc' = IF r.raised THEN "uncaught" ELSE next
  /\ result' = IF r.raised THEN "raised"
               ELSE IF next = "report" THEN "returned" ELSE result
  /\ UNCHANGED <<input, doc, called, stdout, exitcode>>

TopLevelCheck ==
  /\ pc = "top"
  /\ LET top == CheckTopLevel(doc) IN
       Step([raised |-> top.raised, errs |-> top.errs],
            IF top.next THEN "fields" ELSE "report")
  /\ UNCHANGED fi

RequiredField ==
  /\ pc = "fields"
  /\ fi <= Len(Fields)
  /\ Step(CheckField(doc.att, Fields[fi]),
          IF fi = Len(Fields) THEN "custodian_pubkey" ELSE "fields")
  /\ fi' = IF CheckField(doc.att, Fields[fi]).raised THEN fi ELSE fi + 1

CustodianPubkey ==
  /\ pc = "custodian_pubkey"
  /\ Step(CheckCustodianPubkey(doc.att), "signature")
  /\ UNCHANGED fi

Signature ==
  /\ pc = "signature"
  /\ Step(CheckSignature(doc.att), "message_hash")
  /\ UNCHANGED fi

MessageHash ==
  /\ pc = "message_hash"
  /\ Step(CheckMessageHash(doc.att), "account_id_hash")
  /\ UNCHANGED fi

AccountIdHash ==
  /\ pc = "account_id_hash"
  /\ Step(CheckAccountIdHash(doc.att), "numeric_ranges")
  /\ UNCHANGED fi

NumericRanges ==
  /\ pc = "numeric_ranges"
  /\ Step(CheckNumericRanges(doc.att), "report")
  /\ UNCHANGED fi

\* validate_attestation raised TypeError; main has no handler for it and the
\* interpreter ends with status 1
MainUncaughtTypeError ==
  /\ pc = "uncaught"
  /\ Exit(<<>>, 1)

MainReportErrors ==
  /\ pc = "report"
  /\ errors /= <<>>
  /\ Exit(ErrorReport(errors), ExitStatus(errors))

MainReportValid ==
  /\ pc = "report"
  /\ errors = <<>>
  /\ Exit(<<Line("valid", 0, NoError)>>, ExitStatus(errors))

Next ==
  \/ MainUsage
  \/ MainFileNotFound
  \/ MainUncaughtOSError
  \/ MainInvalidJSON
  \/ MainLoad
  \/ TopLevelCheck
  \/ RequiredField
  \/ CustodianPubkey
  \/ Signature
  \/ MessageHash
  \/ AccountIdHash
  \/ NumericRanges
  \/ MainUncaughtTypeError
  \/ MainReportErrors
  \/ MainReportValid

Spec == Init /\ [][Next]_vars

---------------------------------------------------------------------------
(* The data model of the specification, section 3 *)

Returned == result = "returned"

Finished == result \in {"returned", "raised"}

\* the document passed the top-level check: an object with an "attestation" key
HasAttestation(d) == d.t = "dict" /\ d.hasAtt

\* the document is {"attestation": A} with A an object
ObjectAttestation(d) == HasAttestation(d) /\ d.att.t = "dict"

\* a JSON integer in [0,255]; a JSON boolean is not an integer
IsByteElem(e) == e.t = "int" /\ 0 <= e.n /\ e.n <= 255

IsByteArray(ty, a) ==
  ty = "list" /\ Len(a) = ByteArrayLen /\ \A i \in 1..Len(a) : IsByteElem(a[i])

\* a JSON integer in [0, max]
IsUnsigned(v, max) == v.t = "int" /\ ~BigNegative(v.n) /\ ~BigGreater(v.n, max)

\* s with ONE optional leading "0x" or "0X" removed
StripOnePrefix(s) ==
  IF Len(s) >= 2 /\ s[1] = "0" /\ s[2] \in {"x", "X"} THEN SubSeq(s, 3, Len(s)) ELSE s

\* 64 hexadecimal digits after one optional prefix
WellFormedHex(s) ==
  /\ Len(StripOnePrefix(s)) = HexStrLen
  /\ \A i \in 1..Len(StripOnePrefix(s)) : StripOnePrefix(s)[i] \in HexDigits

SatisfiesDataModel(d) ==
  /\ ObjectAttestation(d)
  /\ d.att.has = FieldSet
  /\ \A f \in {"balance_raw", "attestation_id", "issued_at", "valid_until"} :
       IsUnsigned(d.att.f[f], U64Max)
  /\ \A f \in {"currency_code_int", "custodian_id"} : IsUnsigned(d.att.f[f], U32Max)
  /\ \A f \in {"custodian_pubkey", "signature"} :
       /\ d.att.f[f].t = "dict"
       /\ IsByteArray(d.att.f[f].m1.t, d.att.f[f].m1.a)
       /\ IsByteArray(d.att.f[f].m2.t, d.att.f[f].m2.a)
  /\ IsByteArray(d.att.f["message_hash"].t, d.att.f["message_hash"].a)
  /\ \/ d.att.f["account_id_hash"].t = "str" /\ WellFormedHex(d.att.f["account_id_hash"].s)
     \/ IsByteArray(d.att.f["account_id_hash"].t, d.att.f["account_id_hash"].a)

\* the errors of a list that name field f
ErrorsFor(errs, f) == SelectSeq(errs, LAMBDA e : e.field = f)

\* the presence/type errors of a list that name field f
PresenceErrorsFor(errs, f) ==
  SelectSeq(errs, LAMBDA e : e.field = f /\ e.kind \in {"missing_field", "wrong_type"})

\* the document d without key f in its attestation object
WithoutField(d, f) ==
  Doc(d.t, d.hasAtt, Att(d.att.t, d.att.has \ {f}, [d.att.f EXCEPT ![f] = NoneV]))

---------------------------------------------------------------------------
(* Claims *)

\* C1: every document that satisfies all invariants of the data model, with
\* account_id_hash in either encoding, makes validate_attestation return the
\* empty list.
C1_Soundness ==
  (Finished /\ SatisfiesDataModel(doc)) => (Returned /\ errors = <<>>)

\* C2: whenever validate_attestation returns the empty list, the document
\* satisfies every invariant of the data model.
C2_Completeness ==
  (Returned /\ errors = <<>>) => SatisfiesDataModel(doc)

\* C3: validate_attestation never raises; every call ends by returning a
\* list of errors.
C3_NeverRaises == result /= "raised"

\* C4: a document without an "attestation" key, or one that is not an object,
\* gets exactly the one missing-top-level error.
C4_TopLevelShortCircuit ==
  (Finished /\ ~HasAttestation(doc)) =>
    (Returned /\ errors = <<Error("missing_top", "attestation", "", 0, "", NoElem)>>)

\* C5: the process ends with status 0 exactly when an argument was given, the
\* input was read and parsed, and validate_attestation was called and returned
\* the empty list; without an argument, on a decode error and on a missing
\* file it ends with 1 without calling validate_attestation; a non-empty list
\* is printed numbered from 1 in list order before ending with 1; no other
\* status occurs.
C5_ExitStatus ==
  pc = "exit" =>
    /\ exitcode \in {0, 1}
    /\ exitcode = 0 <=>
         (input.argc >= 2 /\ Readable(input) /\ called /\ Returned /\ errors = <<>>)
    /\ (input.argc < 2 \/ input.file = "not_found"
          \/ (input.file \in {"stdin", "found"} /\ ~input.wellformed))
         => (exitcode = 1 /\ ~called)
    /\ (Returned /\ errors /= <<>>) =>
         /\ exitcode = 1
         /\ Len(stdout) = Len(errors) + 1
         /\ \A i \in 1..Len(errors) :
              stdout[i + 1] = [line |-> "error", i |-> i, err |-> errors[i]]

C5_Witness ==
  pc = "exit" /\ Returned /\ Len(errors) >= 2 /\ exitcode = 1 /\ input.file = "found"

\* C6: removing a required field f from an attestation object leaves exactly
\* one error for f, the missing-field error, and the same presence/type
\* errors for every other field; and every call that passes the top-level
\* check checks all ten fields.
C6_Independence ==
  /\ (Finished /\ HasAttestation(doc)) => fi = Len(Fields) + 1
  /\ (Returned /\ ObjectAttestation(doc)) =>
       \A f \in doc.att.has :
         /\ ~ValidateAttestation(WithoutField(doc, f)).raised
         /\ ErrorsFor(ValidateAttestation(WithoutField(doc, f)).errs, f)
              = <<Error("missing_field", f, "", 0, "", NoElem)>>
         /\ \A g \in FieldSet \ {f} :
              PresenceErrorsFor(ValidateAttestation(WithoutField(doc, f)).errs, g)
                = PresenceErrorsFor(errors, g)

\* C7: for a message_hash of exactly 32 elements the only message_hash error
\* names the smallest index whose element is not an integer in [0,255] and
\* that element; there is none when all elements are integers in [0,255].
C7_FirstBadElement ==
  (Returned /\ ObjectAttestation(doc) /\ "message_hash" \in doc.att.has
     /\ doc.att.f["message_hash"].t = "list"
     /\ Len(doc.att.f["message_hash"].a) = ByteArrayLen) =>
    LET a == doc.att.f["message_hash"].a
        bad == {i \in 1..Len(a) : ~IsByteElem(a[i])}
    IN  ErrorsFor(errors, "message_hash") =
          IF bad = {} THEN <<>>
          ELSE <<Error("bad_element", "message_hash", "", Min(bad) - 1, "", a[Min(bad)])>>

\* C8: a string account_id_hash gets no account_id_hash error exactly when,
\* after one optional "0x"/"0X" prefix, 64 hexadecimal digits remain.
C8_HexString ==
  (Returned /\ ObjectAttestation(doc) /\ "account_id_hash" \in doc.att.has
     /\ doc.att.f["account_id_hash"].t = "str") =>
    (ErrorsFor(errors, "account_id_hash") = <<>>
       <=> WellFormedHex(doc.att.f["account_id_hash"].s))

\* C9: custodian_pubkey, signature or message_hash present with the wrong
\* container type gets exactly one error, the wrong-type error; and the
\* check of y (s) is reported whatever the check of x (r) produced.
C9_NestedGating ==
  (Finished /\ ObjectAttestation(doc)) =>
    /\ \A f \in {"custodian_pubkey", "signature", "message_hash"} \cap doc.att.has :
         doc.att.f[f].t /= ExpectedType(f) =>
           ErrorsFor(errors, f) = <<Error("wrong_type", f, "", 0, doc.att.f[f].t, NoElem)>>
    /\ \A f \in {"custodian_pubkey", "signature"} \cap doc.att.has :
         (doc.att.f[f].t = "dict"
            /\ ~(doc.att.f[f].m2.t = "list" /\ Len(doc.att.f[f].m2.a) = ByteArrayLen)) =>
           \E i \in 1..Len(errors) :
             errors[i].field = f /\ errors[i].sub = (IF f = "signature" THEN "s" ELSE "y")

\* the place of an error in the fixed order of the checks
Rank(e) ==
  CASE e.kind = "missing_top" -> 0
    [] e.kind \in {"missing_field", "wrong_type"} ->
         CHOOSE i \in 1..Len(Fields) : Fields[i] = e.field
    [] e.kind \in {"missing_member", "bad_member"} ->
         (CASE e.sub = "x" -> 11 [] e.sub = "y" -> 12 [] e.sub = "r" -> 13 [] OTHER -> 14)
    [] e.kind \in {"bad_array", "bad_element"} -> 15
    [] e.kind \in {"hex_len", "array_len", "bad_kind"} -> 16
    [] e.kind = "not_hex" -> 17
    [] OTHER ->
         (CASE e.field = "balance_raw" -> 18 [] e.field = "currency_code_int" -> 19
            [] OTHER -> 20)

\* C10: the returned list is ordered: presence/type errors of the ten fields
\* in declaration order, then custodian_pubkey x, y, then signature r, s, then
\* message_hash, then account_id_hash length before hex-decode, then the range
\* errors of balance_raw, currency_code_int, custodian_id.
C10_ErrorOrder ==
  Returned =>
    /\ \A i, j \in 1..Len(errors) : i < j => Rank(errors[i]) < Rank(errors[j])
    /\ HasAttestation(doc) => \A i \in 1..Len(errors) : Rank(errors[i]) >= 1
    /\ \A i \in 1..Len(errors) :
         /\ errors[i].kind \in {"missing_member", "bad_member"} =>
              errors[i].field = (IF errors[i].sub \in {"x", "y"}
                                 THEN "custodian_pubkey" ELSE "signature")
         /\ errors[i].kind \in {"bad_array", "bad_element"} => errors[i].field = "message_hash"
         /\ errors[i].kind \in {"hex_len", "array_len", "bad_kind", "not_hex"} =>
              errors[i].field = "account_id_hash"
         /\ errors[i].kind = "range" =>
              errors[i].field \in {"balance_raw", "currency_code_int", "custodian_id"}

C10_Witness ==
  /\ Returned
  /\ \E i, j, k \in 1..Len(errors) :
       /\ errors[i].kind = "hex_len"
       /\ errors[j].kind = "not_hex"
       /\ errors[k].kind \in {"range", "wrong_type", "missing_field", "bad_member"}

====
